---- MODULE Spec2Model ----
(***************************************************************************)
(* Model of ck-tui/src/chunks.rs: the chunk-depth sweep                     *)
(* (calculate_chunk_depths, calculate_max_depth) and the per-line display   *)
(* model builder (collect_chunk_display_lines).                             *)
(*                                                                          *)
(* Strings are sequences of characters (one-character strings; a glyph      *)
(* outside ASCII is written by its code point, "U+2500").  Option<T> is a   *)
(* sequence of length at most one: None is <<>>, Some(x) is <<x>>.          *)
(* Vec<T> is a sequence, HashMap/BTreeMap a function on its key set.        *)
(***************************************************************************)
EXTENDS Integers, Sequences, FiniteSets, TLC

VARIABLES
    pc,             \* position in the function being run
    all_chunks,     \* argument: &[IndexedChunkMeta]
    sorted_chunks,  \* calculate_chunk_depths: sorted_chunks
    sweep_i,        \* calculate_chunk_depths: position of the for loop
    stack,          \* calculate_chunk_depths: stack of (start, end, depth)
    depth_map,      \* depth_map: HashMap<(usize, usize), usize>
    max_depth,      \* result of calculate_max_depth
    lines,          \* collect_chunk_display_lines: lines
    context_start,  \* argument
    context_end,    \* argument
    match_line,     \* argument
    chunk_meta,     \* argument: Option<&IndexedChunkMeta>
    full_file_mode, \* argument
    depth_slots,    \* depth_slots: Vec<Option<&IndexedChunkMeta>>
    start_map,      \* start_map: BTreeMap<usize, Vec<&IndexedChunkMeta>>
    idx,            \* position of the loop over lines[context_start..context_end]
    rows,           \* rows: Vec<ChunkDisplayLine>
    file,           \* chunk_file_live: the file behind file_path and its chunker
    calls,          \* chunk_file_live: the fallible steps attempted so far
    content,        \* chunk_file_live: content
    live_chunks,    \* chunk_file_live: chunks
    result          \* chunk_file_live: the value returned, None while running

vars == <<pc, all_chunks, sorted_chunks, sweep_i, stack, depth_map, max_depth,
          lines, context_start, context_end, match_line, chunk_meta,
          full_file_mode, depth_slots, start_map, idx, rows,
          file, calls, content, live_chunks, result>>

sweepVars == <<sorted_chunks, sweep_i, stack>>
renderArgs == <<lines, context_start, context_end, match_line, chunk_meta,
                full_file_mode>>
renderLocals == <<depth_slots, start_map, idx, rows>>
liveVars == <<file, calls, content, live_chunks, result>>

(***************************************************************************)
(* Bounds of the model.                                                     *)
(***************************************************************************)
\* lines of the rendered file, and the largest line number of a span
MaxLine == 3
\* chunks of the rendered file
MaxChunks == 2
\* largest line number of a span handed to the depth sweep alone
MaxSweepLine == 4
\* chunks handed to the depth sweep alone
MaxSweepChunks == 3
\* chunks the chunker returns to chunk_file_live
MaxLiveChunks == 2

(***************************************************************************)
(* Option, strings, small helpers.                                          *)
(***************************************************************************)
None == << >>
Some(x) == <<x>>
IsSome(o) == Len(o) > 0
Unwrap(o) == o[1]

Range(s) == {s[i] : i \in DOMAIN s}

SatSub(a, b) == IF a >= b THEN a - b ELSE 0

SeqsUpTo(S, n) == UNION {[1..k -> S] : k \in 0..n}

EmptyMap == [k \in {} |-> 0]
MapInsert(m, k, v) == [x \in (DOMAIN m) \cup {k} |-> IF x = k THEN v ELSE m[x]]
MapRemove(m, k) == [x \in (DOMAIN m) \ {k} |-> m[x]]
MapValues(m) == {m[k] : k \in DOMAIN m}

\* the chunk_type strings of convert_chunks_to_meta
TextType == <<"t", "e", "x", "t">>
FunctionType == <<"f", "u", "n", "c", "t", "i", "o", "n">>
ClassType == <<"c", "l", "a", "s", "s">>
MethodType == <<"m", "e", "t", "h", "o", "d">>

Span(s, e) == [line_start |-> s, line_end |-> e]

IndexedChunkMeta(span, chunk_type, breadcrumb, ancestry, estimated_tokens) ==
    [span |-> span,
     chunk_type |-> chunk_type,
     breadcrumb |-> breadcrumb,
     ancestry |-> ancestry,
     estimated_tokens |-> estimated_tokens,
     byte_length |-> None,
     leading_trivia |-> None,
     trailing_trivia |-> None]

\* a chunk that carries a span and a type and no other metadata
PlainChunk(s, e, chunk_type) ==
    IndexedChunkMeta(Span(s, e), chunk_type, None, << >>, None)

SpanKey(meta) == <<meta.span.line_start, meta.span.line_end>>

\* chunk_file_live is not running
InitLiveIdle ==
    /\ file = << >>
    /\ calls = << >>
    /\ content = << >>
    /\ live_chunks = << >>
    /\ result = None

(***************************************************************************)
(* calculate_chunk_depths                                                   *)
(***************************************************************************)
\* the mutant of DepthKeyLe: line_end ascending where the code has Reverse
DepthKeyLeEndAscending(a, b) ==
    \/ a.span.line_start < b.span.line_start
    \/ /\ a.span.line_start = b.span.line_start
       /\ a.span.line_end <= b.span.line_end

\* the sort key (line_start, Reverse(line_end)): a sorts no later than b
DepthKeyLe(a, b) ==
    \/ a.span.line_start < b.span.line_start
    \/ /\ a.span.line_start = b.span.line_start
       /\ a.span.line_end >= b.span.line_end

\* x placed into a sorted sequence behind everything that sorts no later than
\* it: sort_by_key is a stable sort
InsertByDepthKey(sorted, x) ==
    LET n == Cardinality({i \in DOMAIN sorted : DepthKeyLe(sorted[i], x)})
    IN  SubSeq(sorted, 1, n) \o <<x>> \o SubSeq(sorted, n + 1, Len(sorted))

RECURSIVE SortChunks(_)
SortChunks(chunks) ==
    IF chunks = << >> THEN << >>
    ELSE InsertByDepthKey(SortChunks(SubSeq(chunks, 1, Len(chunks) - 1)),
                          chunks[Len(chunks)])

\* the mutant of StackEntryOpen: >= where the code has >
StackEntryOpenGe(stack_end, start) == stack_end >= start

\* the predicate of stack.retain
StackEntryOpen(stack_end, start) == stack_end > start

\* the mutant of DepthMapInsert: the first writer of a span wins
DepthMapInsertFirst(m, key, depth) ==
    IF key \in DOMAIN m THEN m ELSE MapInsert(m, key, depth)

\* depth_map.insert((start, end), depth)
DepthMapInsert(m, key, depth) == MapInsert(m, key, depth)

\* the mutant of SweepOne: the depth is taken before the stack is pruned
SweepOneDepthFirst(st, meta) ==
    LET start == meta.span.line_start
        end == meta.span.line_end
        depth == Len(st.stack)
        retained == SelectSeq(st.stack, LAMBDA t : StackEntryOpen(t[2], start))
    IN  [stack |-> Append(retained, <<start, end, depth>>),
         depth_map |-> DepthMapInsert(st.depth_map, <<start, end>>, depth)]

\* the body of the for loop over sorted_chunks
SweepOne(st, meta) ==
    LET start == meta.span.line_start
        end == meta.span.line_end
        retained == SelectSeq(st.stack, LAMBDA t : StackEntryOpen(t[2], start))
        depth == Len(retained)
    IN  [stack |-> Append(retained, <<start, end, depth>>),
         depth_map |-> DepthMapInsert(st.depth_map, <<start, end>>, depth)]

RECURSIVE SweepAll(_, _)
SweepAll(st, chunks) ==
    IF chunks = << >> THEN st
    ELSE SweepAll(SweepOne(st, Head(chunks)), Tail(chunks))

CalculateChunkDepths(chunks) ==
    SweepAll([stack |-> << >>, depth_map |-> EmptyMap], SortChunks(chunks)).depth_map

(***************************************************************************)
(* calculate_max_depth                                                      *)
(***************************************************************************)
\* values().copied().max().unwrap_or(0)
MaxOrZero(S) == IF S = {} THEN 0 ELSE CHOOSE x \in S : \A y \in S : y <= x

\* the mutant of MaxDepthOf: the + 1 forgotten
MaxDepthOfNoPlusOne(m) == MaxOrZero(MapValues(m))

MaxDepthOf(m) == MaxOrZero(MapValues(m)) + 1

CalculateMaxDepth(chunks) == MaxDepthOf(CalculateChunkDepths(chunks))

(***************************************************************************)
(* The depth sweep run on its own, one loop iteration at a time.            *)
(***************************************************************************)
\* the spans with 1 <= line_start <= line_end <= n
SpansUpTo(n) == {Span(p[1], p[2]) : p \in {q \in (1..n) \X (1..n) : q[1] <= q[2]}}

\* the scenarios of the specification's testable properties
BoundaryScenario == <<PlainChunk(1, 5, Some(FunctionType)),
                      PlainChunk(5, 10, Some(FunctionType))>>
SiblingScenario == <<PlainChunk(1, 10, Some(FunctionType)),
                     PlainChunk(2, 5, Some(ClassType)),
                     PlainChunk(6, 9, Some(MethodType))>>

SweepInputs ==
    {[i \in DOMAIN s |-> IndexedChunkMeta(s[i], Some(FunctionType), None, << >>, None)] :
        s \in SeqsUpTo(SpansUpTo(MaxSweepLine), MaxSweepChunks)}
    \cup {BoundaryScenario, SiblingScenario}

InitDepth ==
    /\ pc = "depths_call"
    /\ all_chunks \in SweepInputs
    /\ sorted_chunks = << >>
    /\ sweep_i = 0
    /\ stack = << >>
    /\ depth_map = EmptyMap
    /\ max_depth = 0
    /\ lines = << >>
    /\ context_start = 0
    /\ context_end = 0
    /\ match_line = 0
    /\ chunk_meta = None
    /\ full_file_mode = FALSE
    /\ depth_slots = << >>
    /\ start_map = EmptyMap
    /\ idx = 0
    /\ rows = << >>
    /\ InitLiveIdle

\* lines 43-48: the empty map and stack, and the sorted copy of the chunks
SweepStart ==
    /\ pc = "depths_call"
    /\ depth_map' = EmptyMap
    /\ stack' = << >>
    /\ sorted_chunks' = SortChunks(all_chunks)
    /\ sweep_i' = 1
    /\ pc' = "sweep"
    /\ UNCHANGED <<all_chunks, max_depth, renderArgs, renderLocals, liveVars>>

\* lines 50-64: one iteration of the loop over sorted_chunks
SweepStep ==
    /\ pc = "sweep"
    /\ sweep_i <= Len(sorted_chunks)
    /\ LET r == SweepOne([stack |-> stack, depth_map |-> depth_map],
                         sorted_chunks[sweep_i])
       IN  /\ stack' = r.stack
           /\ depth_map' = r.depth_map
    /\ sweep_i' = sweep_i + 1
    /\ UNCHANGED <<pc, all_chunks, sorted_chunks, max_depth, renderArgs, renderLocals, liveVars>>

\* line 66: the loop is over, depth_map is returned
SweepReturn ==
    /\ pc = "sweep"
    /\ sweep_i > Len(sorted_chunks)
    /\ pc' = "depths_returned"
    /\ UNCHANGED <<all_chunks, sweepVars, depth_map, max_depth, renderArgs, renderLocals, liveVars>>

\* lines 70-73: calculate_max_depth on the same chunks
MaxDepthCall ==
    /\ pc = "depths_returned"
    /\ max_depth' = CalculateMaxDepth(all_chunks)
    /\ pc' = "depths_done"
    /\ UNCHANGED <<all_chunks, sweepVars, depth_map, renderArgs, renderLocals, liveVars>>

NextDepth == SweepStart \/ SweepStep \/ SweepReturn \/ MaxDepthCall

SpecDepth == InitDepth /\ [][NextDepth]_vars

(***************************************************************************)
(* collect_chunk_display_lines: the characters it writes                    *)
(***************************************************************************)
BoxHorizontal == "U+2500"          \* the single-line chunk symbol
BoxDownRight == "U+250C"           \* the first line of a multi-line chunk
BoxUpRight == "U+2514"             \* the last line of a multi-line chunk
BoxVertical == "U+2502"            \* an interior line of a multi-line chunk
Blank == " "                       \* an empty rail slot
MiddleDot == "U+00B7"              \* a single-line text chunk
BoxHeavyVerticalRight == "U+2523"  \* first column of the no-chunk boundary marker
BoxHeavyHorizontal == "U+2501"     \* second column of the no-chunk boundary marker
Bullet == "U+2022"                 \* the bullet of the token hint

MessageText == <<"Chunk metadata available but no matching chunk found for this line.">>

DigitChars == <<"0", "1", "2", "3", "4", "5", "6", "7", "8", "9">>

\* format!("{}", n) of a usize
RECURSIVE Decimal(_)
Decimal(n) ==
    IF n < 10 THEN <<DigitChars[n + 1]>>
    ELSE Decimal(n \div 10) \o <<DigitChars[(n % 10) + 1]>>

\* strings.join(sep)
RECURSIVE Join(_, _)
Join(strings, sep) ==
    IF strings = << >> THEN << >>
    ELSE IF Len(strings) = 1 THEN strings[1]
    ELSE strings[1] \o sep \o Join(Tail(strings), sep)

Whitespace == {" ", "\t"}

\* str::trim_start
RECURSIVE TrimStart(_)
TrimStart(s) ==
    IF s /= << >> /\ Head(s) \in Whitespace THEN TrimStart(Tail(s)) ELSE s

\* str::starts_with
StartsWith(s, prefix) ==
    Len(s) >= Len(prefix) /\ SubSeq(s, 1, Len(prefix)) = prefix

(***************************************************************************)
(* collect_chunk_display_lines: setup (lines 85-155)                        *)
(***************************************************************************)
\* chunk_type.as_deref().map(|t| t != "text").unwrap_or(true)
IsStructural(meta) ==
    IF IsSome(meta.chunk_type) THEN Unwrap(meta.chunk_type) /= TextType ELSE TRUE

\* chunk_type.as_deref().map(|t| t == "text").unwrap_or(false)
IsText(meta) ==
    IF IsSome(meta.chunk_type) THEN Unwrap(meta.chunk_type) = TextType ELSE FALSE

StructuralChunks(chunks) == SelectSeq(chunks, IsStructural)
TextChunks(chunks) == SelectSeq(chunks, IsText)

\* the structural chunks that reach the visible window
SourceChunks(structural, first_line, last_line) ==
    SelectSeq(structural,
              LAMBDA m : /\ m.span.line_end >= SatSub(first_line, 1)
                         /\ m.span.line_start <= last_line)

\* the mutant of PlaceInSlot: every chunk is put in the first slot
PlaceInSlotFirst(slots, meta, dmap, maxd) ==
    IF SpanKey(meta) \in DOMAIN dmap /\ dmap[SpanKey(meta)] < maxd
    THEN [slots EXCEPT ![1] = Some(meta)]
    ELSE slots

\* if let Some(&depth) = depth_map.get(&span) && depth < max_depth
\*     { depth_slots[depth] = Some(meta) }
PlaceInSlot(slots, meta, dmap, maxd) ==
    LET key == SpanKey(meta)
    IN  IF key \in DOMAIN dmap /\ dmap[key] < maxd
        THEN [slots EXCEPT ![dmap[key] + 1] = Some(meta)]
        ELSE slots

RECURSIVE PlaceAll(_, _, _, _)
PlaceAll(slots, metas, dmap, maxd) ==
    IF metas = << >> THEN slots
    ELSE PlaceAll(PlaceInSlot(slots, Head(metas), dmap, maxd), Tail(metas), dmap, maxd)

\* the condition of the pre-population loop
OpenBeforeWindow(meta, first_line) ==
    meta.span.line_start < first_line /\ meta.span.line_end >= first_line

\* lines 131-140
Prepopulate(slots, structural, first_line, dmap, maxd) ==
    PlaceAll(slots, SelectSeq(structural, LAMBDA m : OpenBeforeWindow(m, first_line)),
             dmap, maxd)

SpanLength(meta) == SatSub(meta.span.line_end, meta.span.line_start)

\* x placed behind every chunk that is at least as long: a stable sort by
\* Reverse(length)
InsertByLength(sorted, x) ==
    LET n == Cardinality({i \in DOMAIN sorted : SpanLength(sorted[i]) >= SpanLength(x)})
    IN  SubSeq(sorted, 1, n) \o <<x>> \o SubSeq(sorted, n + 1, Len(sorted))

RECURSIVE SortByLength(_)
SortByLength(metas) ==
    IF metas = << >> THEN << >>
    ELSE InsertByLength(SortByLength(SubSeq(metas, 1, Len(metas) - 1)),
                        metas[Len(metas)])

\* lines 142-155: the chunks starting inside the window, by start line,
\* longest first
BuildStartMap(source, first_line) ==
    LET inside == SelectSeq(source, LAMBDA m : m.span.line_start >= first_line)
        keys == {inside[i].span.line_start : i \in DOMAIN inside}
    IN  [l \in keys |->
            SortByLength(SelectSeq(inside, LAMBDA m : m.span.line_start = l))]

(***************************************************************************)
(* collect_chunk_display_lines: one visible line (lines 157-332)            *)
(***************************************************************************)
\* lines 161-168
ExpireSlots(slots, line_num) ==
    [i \in DOMAIN slots |->
        IF IsSome(slots[i]) /\ Unwrap(slots[i]).span.line_end < line_num
        THEN None ELSE slots[i]]

\* lines 170-179
ActivateSlots(slots, smap, line_num, dmap, maxd) ==
    IF line_num \in DOMAIN smap
    THEN PlaceAll(slots, smap[line_num], dmap, maxd)
    ELSE slots

\* the mutant of PostExpireSlots: nothing is cleared after the row
PostExpireSlotsKeep(slots, line_num) == slots

\* lines 324-331
PostExpireSlots(slots, line_num) ==
    [i \in DOMAIN slots |->
        IF IsSome(slots[i]) /\ Unwrap(slots[i]).span.line_end = line_num
        THEN None ELSE slots[i]]

\* the mutant of LabelText: format!("{}{}{}") with the space left out
LabelTextNoSpace(meta) ==
    LET chunk_kind == IF IsSome(meta.chunk_type) THEN Unwrap(meta.chunk_type)
                      ELSE <<"c", "h", "u", "n", "k">>
        breadcrumb_text ==
            IF IsSome(meta.breadcrumb) /\ Unwrap(meta.breadcrumb) /= << >>
            THEN <<" ", "(">> \o Unwrap(meta.breadcrumb) \o <<")">>
            ELSE IF meta.ancestry /= << >>
                 THEN <<" ", "(">> \o Join(meta.ancestry, <<":", ":">>) \o <<")">>
                 ELSE << >>
        token_hint ==
            IF IsSome(meta.estimated_tokens)
            THEN <<" ", Bullet, " ">> \o Decimal(Unwrap(meta.estimated_tokens))
                 \o <<" ", "t", "o", "k", "e", "n", "s">>
            ELSE << >>
    IN  chunk_kind \o breadcrumb_text \o token_hint

\* lines 185-204
LabelText(meta) ==
    LET chunk_kind == IF IsSome(meta.chunk_type) THEN Unwrap(meta.chunk_type)
                      ELSE <<"c", "h", "u", "n", "k">>
        breadcrumb_text ==
            IF IsSome(meta.breadcrumb) /\ Unwrap(meta.breadcrumb) /= << >>
            THEN <<" ", "(">> \o Unwrap(meta.breadcrumb) \o <<")">>
            ELSE IF meta.ancestry /= << >>
                 THEN <<" ", "(">> \o Join(meta.ancestry, <<":", ":">>) \o <<")">>
                 ELSE << >>
        token_hint ==
            IF IsSome(meta.estimated_tokens)
            THEN <<" ", Bullet, " ">> \o Decimal(Unwrap(meta.estimated_tokens))
                 \o <<" ", "t", "o", "k", "e", "n", "s">>
            ELSE << >>
    IN  chunk_kind \o <<" ">> \o breadcrumb_text \o token_hint

\* the mutant of LabelAt: the label is put on the chunk's last line
LabelAtEnd(cmeta, line_num, maxd) ==
    IF IsSome(cmeta) /\ line_num = Unwrap(cmeta).span.line_end
    THEN <<[kind |-> "Label", prefix |-> maxd, text |-> LabelText(Unwrap(cmeta))]>>
    ELSE << >>

\* lines 181-209: the rows pushed for the label, none or one
LabelAt(cmeta, line_num, maxd) ==
    IF IsSome(cmeta) /\ line_num = Unwrap(cmeta).span.line_start
    THEN <<[kind |-> "Label", prefix |-> maxd, text |-> LabelText(Unwrap(cmeta))]>>
    ELSE << >>

Keywords == {<<"f", "n", " ">>,
             <<"f", "u", "n", "c", " ">>,
             <<"d", "e", "f", " ">>,
             <<"c", "l", "a", "s", "s", " ">>,
             <<"i", "m", "p", "l", " ">>,
             <<"s", "t", "r", "u", "c", "t", " ">>,
             <<"e", "n", "u", "m", " ">>}

\* the mutant of IsBoundary: the line is not trimmed
IsBoundaryNoTrim(line_text) == \E k \in Keywords : StartsWith(line_text, k)

\* lines 213-219
IsBoundary(line_text) == \E k \in Keywords : StartsWith(TrimStart(line_text), k)

\* lines 221-234
FallbackColumns(line_text) ==
    IF IsBoundary(line_text)
    THEN <<[ch |-> BoxHeavyVerticalRight, is_match |-> FALSE],
           [ch |-> BoxHeavyHorizontal, is_match |-> FALSE]>>
    ELSE << >>

\* lines 249-251: the first text chunk that covers the line
TextChunkHere(text_chunks, line_num) ==
    LET covering == SelectSeq(text_chunks,
                              LAMBDA m : /\ line_num >= m.span.line_start
                                         /\ line_num <= m.span.line_end)
    IN  IF covering = << >> THEN None ELSE Some(Head(covering))

HasAnyStructural(slots) == \E i \in DOMAIN slots : IsSome(slots[i])

\* lines 255-257
InMatchedChunk(cmeta, line_num) ==
    IF IsSome(cmeta)
    THEN /\ line_num >= Unwrap(cmeta).span.line_start
         /\ line_num <= Unwrap(cmeta).span.line_end
    ELSE FALSE

\* lines 265-273
RailSymbol(span, line_num) ==
    IF span.line_start = span.line_end THEN BoxHorizontal
    ELSE IF line_num = span.line_start THEN BoxDownRight
    ELSE IF line_num = span.line_end THEN BoxUpRight
    ELSE BoxVertical

\* lines 274-278
SpanIsMatch(cmeta, span) ==
    IF IsSome(cmeta)
    THEN /\ Unwrap(cmeta).span.line_start = span.line_start
         /\ Unwrap(cmeta).span.line_end = span.line_end
    ELSE FALSE

\* lines 260-287
RailColumns(slots, cmeta, line_num) ==
    [i \in DOMAIN slots |->
        IF IsSome(slots[i])
        THEN [ch |-> RailSymbol(Unwrap(slots[i]).span, line_num),
              is_match |-> SpanIsMatch(cmeta, Unwrap(slots[i]).span)]
        ELSE [ch |-> Blank, is_match |-> FALSE]]

\* lines 291-303
TextSymbol(span, line_num) ==
    IF span.line_start = span.line_end THEN MiddleDot
    ELSE IF line_num = span.line_start THEN BoxDownRight
    ELSE IF line_num = span.line_end THEN BoxUpRight
    ELSE BoxVertical

\* the mutant of OverlayText: the text symbol is pushed as one more column
OverlayTextPush(columns, has_any_structural, text_chunk_here, line_num) ==
    IF ~has_any_structural /\ IsSome(text_chunk_here)
    THEN Append(columns, [ch |-> TextSymbol(Unwrap(text_chunk_here).span, line_num),
                          is_match |-> FALSE])
    ELSE columns

\* the mutant of OverlayText: the text symbol is written whether or not a
\* rail slot is occupied
OverlayTextAlways(columns, has_any_structural, text_chunk_here, line_num) ==
    IF IsSome(text_chunk_here)
    THEN LET ch == TextSymbol(Unwrap(text_chunk_here).span, line_num)
         IN  IF columns = << >>
             THEN Append(columns, [ch |-> ch, is_match |-> FALSE])
             ELSE [columns EXCEPT ![1].ch = ch]
    ELSE columns

\* lines 289-313
OverlayText(columns, has_any_structural, text_chunk_here, line_num) ==
    IF ~has_any_structural /\ IsSome(text_chunk_here)
    THEN LET ch == TextSymbol(Unwrap(text_chunk_here).span, line_num)
         IN  IF columns = << >>
             THEN Append(columns, [ch |-> ch, is_match |-> FALSE])
             ELSE [columns EXCEPT ![1].ch = ch]
    ELSE columns

\* lines 211-246: the Content row of a file with no chunks
FallbackContent(line_text, line_num, mline) ==
    [kind |-> "Content",
     columns |-> FallbackColumns(line_text),
     line_num |-> line_num,
     text |-> line_text,
     is_match_line |-> (line_num = mline),
     in_matched_chunk |-> FALSE,
     has_any_chunk |-> IsBoundary(line_text)]

\* lines 248-322: the Content row of a file with chunks
RailContent(slots, text_chunks, cmeta, line_text, line_num, mline) ==
    LET text_chunk_here == TextChunkHere(text_chunks, line_num)
        has_any_structural == HasAnyStructural(slots)
    IN  [kind |-> "Content",
         columns |-> OverlayText(RailColumns(slots, cmeta, line_num),
                                 has_any_structural, text_chunk_here, line_num),
         line_num |-> line_num,
         text |-> line_text,
         is_match_line |-> (line_num = mline),
         in_matched_chunk |-> InMatchedChunk(cmeta, line_num),
         has_any_chunk |-> (has_any_structural \/ IsSome(text_chunk_here))]

\* the mutant of TrailingMessage: full_file_mode is not looked at
TrailingMessageAnyMode(ffm, cmeta, chunks) ==
    IF ~IsSome(cmeta) /\ chunks /= << >>
    THEN <<[kind |-> "Message", text |-> MessageText]>>
    ELSE << >>

\* lines 334-339: the rows pushed after the loop, none or one
TrailingMessage(ffm, cmeta, chunks) ==
    IF ~ffm /\ ~IsSome(cmeta) /\ chunks /= << >>
    THEN <<[kind |-> "Message", text |-> MessageText]>>
    ELSE << >>

(***************************************************************************)
(* collect_chunk_display_lines, one visible line at a time.                 *)
(***************************************************************************)
LineSamples ==
    << <<"f", "n", " ", "a", "(", ")">>,
       <<" ", " ", "x", " ", "=", " ", "1">>,
       <<"\t", "c", "l", "a", "s", "s", " ", "B">>,
       <<"f", "n", "x">>,
       << >>,
       <<" ", "e", "n", "u", "m", " ", "E">> >>

\* a file of n lines
SampleFile(n) == [i \in 1..n |-> LineSamples[((i - 1) % Len(LineSamples)) + 1]]

RenderTypes == {Some(FunctionType), Some(TextType)}

RenderChunks ==
    {IndexedChunkMeta(sp, ty, None, << >>, None) :
        sp \in SpansUpTo(MaxLine), ty \in RenderTypes}

\* a matched chunk that need not be one of the file's chunks
StaleChunk == PlainChunk(2, MaxLine, Some(FunctionType))

\* no matched chunk, the last of the file's chunks (the chunks come in every
\* order), or the stale one
MatchedChoices(chunks) ==
    {None} \cup {Some(chunks[i]) : i \in DOMAIN chunks \cap {Len(chunks)}}
           \cup {Some(StaleChunk)}

\* a nested pair of structural chunks and a text chunk on a line of its own
NestedWithText == <<PlainChunk(1, 2, Some(FunctionType)),
                    PlainChunk(1, 1, Some(FunctionType)),
                    PlainChunk(3, 3, Some(TextType))>>

RenderInputs == SeqsUpTo(RenderChunks, MaxChunks) \cup {NestedWithText, SiblingScenario}

\* the number of lines of the file the chunks were taken from: the sibling
\* scenario is a file of as many lines as its outer chunk
FileLength(chunks) ==
    IF chunks = SiblingScenario THEN SiblingScenario[1].span.line_end ELSE MaxLine

MatchLines == {2}

InitCommon ==
    /\ pc = "render_call"
    /\ sorted_chunks = << >>
    /\ sweep_i = 0
    /\ stack = << >>
    /\ depth_map = EmptyMap
    /\ max_depth = 0
    /\ depth_slots = << >>
    /\ start_map = EmptyMap
    /\ idx = 0
    /\ rows = << >>
    /\ InitLiveIdle

\* the windows lines[context_start..context_end] of a file of n lines; the
\* empty window is taken at the top of the file only
Windows(n) ==
    {w \in (0..n) \X (0..n) : w[1] < w[2] \/ w = <<0, 0>>}

\* full-file mode goes with the window that shows the whole file; the
\* single-chunk mode goes with every window
Modes(w, n) == IF w = <<0, n>> THEN BOOLEAN ELSE {FALSE}

Init ==
    /\ InitCommon
    /\ all_chunks \in RenderInputs
    /\ lines = SampleFile(FileLength(all_chunks))
    /\ \E w \in Windows(Len(lines)) :
          /\ context_start = w[1]
          /\ context_end = w[2]
          /\ full_file_mode \in Modes(w, Len(lines))
    /\ match_line \in MatchLines
    /\ chunk_meta \in MatchedChoices(all_chunks)

\* the metadata a label is written from
LabelTypes == {None, Some(FunctionType), Some(TextType)}
LabelBreadcrumbs == {None, Some(<< >>), Some(<<"m", ":", ":", "f">>)}
LabelAncestries == {<< >>, << <<"m">> >>, << <<"m">>, <<"f">> >>}
LabelTokens == {None, Some(7), Some(120)}

LabelledChunks ==
    {IndexedChunkMeta(sp, ty, bc, an, tk) :
        sp \in SpansUpTo(MaxLine), ty \in LabelTypes, bc \in LabelBreadcrumbs,
        an \in LabelAncestries, tk \in LabelTokens}

\* the calls whose matched chunk carries every kind of label metadata; the
\* file's chunks are the matched chunk alone, or none
InitLabel ==
    /\ InitCommon
    /\ lines = SampleFile(MaxLine)
    /\ chunk_meta \in {Some(m) : m \in LabelledChunks}
    /\ all_chunks \in {<< >>, <<Unwrap(chunk_meta)>>}
    /\ \E w \in Windows(Len(lines)) :
          /\ context_start = w[1]
          /\ context_end = w[2]
          /\ full_file_mode \in Modes(w, Len(lines))
    /\ match_line \in MatchLines

first_line == context_start + 1
last_line == context_end
\* the mutant of line_num: the position in the window taken for the line number
line_num_in_window == idx + 1

line_num == context_start + idx + 1

\* lines 85-155: everything before the loop over the visible lines
Setup ==
    /\ pc = "render_call"
    /\ LET structural_chunks == StructuralChunks(all_chunks)
           dmap == CalculateChunkDepths(structural_chunks)
           maxd == CalculateMaxDepth(structural_chunks)
           source_chunks == SourceChunks(structural_chunks, first_line, last_line)
       IN  /\ depth_map' = dmap
           /\ max_depth' = maxd
           /\ depth_slots' = Prepopulate([i \in 1..maxd |-> None], structural_chunks,
                                         first_line, dmap, maxd)
           /\ start_map' = BuildStartMap(source_chunks, first_line)
    /\ rows' = << >>
    /\ idx' = 0
    /\ pc' = "render_loop"
    /\ UNCHANGED <<all_chunks, sweepVars, renderArgs, liveVars>>

\* lines 157-332: one iteration of the loop over lines[context_start..context_end]
RenderLine ==
    /\ pc = "render_loop"
    /\ idx < context_end - context_start
    /\ LET line_text == lines[line_num]
           expired == ExpireSlots(depth_slots, line_num)
           active == ActivateSlots(expired, start_map, line_num, depth_map, max_depth)
           label == LabelAt(chunk_meta, line_num, max_depth)
       IN  IF all_chunks = << >>
           THEN /\ rows' = rows \o label
                              \o <<FallbackContent(line_text, line_num, match_line)>>
                /\ depth_slots' = active
           ELSE /\ rows' = rows \o label
                              \o <<RailContent(active, TextChunks(all_chunks), chunk_meta,
                                               line_text, line_num, match_line)>>
                /\ depth_slots' = PostExpireSlots(active, line_num)
    /\ start_map' = MapRemove(start_map, line_num)
    /\ idx' = idx + 1
    /\ UNCHANGED <<pc, all_chunks, sweepVars, depth_map, max_depth, renderArgs, liveVars>>

\* lines 334-341: the trailing message and the return
Finish ==
    /\ pc = "render_loop"
    /\ idx >= context_end - context_start
    /\ rows' = rows \o TrailingMessage(full_file_mode, chunk_meta, all_chunks)
    /\ pc' = "render_done"
    /\ UNCHANGED <<all_chunks, sweepVars, depth_map, max_depth, renderArgs,
                   depth_slots, start_map, idx, liveVars>>

Next == Setup \/ RenderLine \/ Finish

Spec == Init /\ [][Next]_vars

SpecLabel == InitLabel /\ [][Next]_vars

\* lines of files that have no chunk metadata: every keyword, indented or
\* not, and near misses
FallbackSamples ==
    << <<"f", "n", " ", "a", "(", ")">>,
       <<"f", "n", "x">>,
       <<" ", " ", "f", "u", "n", "c", " ", "f">>,
       << >>,
       <<"d", "e", "f", " ", "g">>,
       <<"c", "l", "a", "s", "s">>,
       <<"\t", "c", "l", "a", "s", "s", " ", "B">>,
       <<" ", " ", "x", " ", "=", " ", "1">>,
       <<"i", "m", "p", "l", " ", "T">>,
       <<"F", "n", " ", "a">>,
       <<" ", "s", "t", "r", "u", "c", "t", " ", "S">>,
       <<"x", " ", "f", "n", " ", "a">>,
       <<"e", "n", "u", "m", " ", "E">>,
       <<" ", "\t", " ">>,
       <<"d", "e", "f", "i", "n", "e", " ", "x">>,
       <<"\t", "\t", "f", "n", " ">> >>

\* the n lines of FallbackSamples that follow the first o
FallbackFile(o, n) ==
    [i \in 1..n |-> FallbackSamples[((o + i - 1) % Len(FallbackSamples)) + 1]]

\* the calls on a file without chunks, with or without a matched chunk
InitFallback ==
    /\ InitCommon
    /\ \E o \in 0..(Len(FallbackSamples) - 1) : lines = FallbackFile(o, MaxLine)
    /\ all_chunks = << >>
    /\ \E w \in Windows(Len(lines)) :
          /\ context_start = w[1]
          /\ context_end = w[2]
          /\ full_file_mode \in Modes(w, Len(lines))
    /\ match_line \in MatchLines
    /\ chunk_meta \in {None, Some(StaleChunk)}

SpecFallback == InitFallback /\ [][Next]_vars

(***************************************************************************)
(* collect_chunk_display_lines as one function of its arguments             *)
(***************************************************************************)
\* the arguments of one call
RenderCall(ls, cs, ce, ml, cmeta, cks, ffm) ==
    [lines |-> ls, context_start |-> cs, context_end |-> ce, match_line |-> ml,
     chunk_meta |-> cmeta, all_chunks |-> cks, full_file_mode |-> ffm]

\* lines 157-341: the loop from its k-th iteration on, then the trailing
\* message
RECURSIVE RenderRest(_, _, _, _, _, _, _)
RenderRest(a, dmap, maxd, slots, smap, k, out) ==
    IF k >= a.context_end - a.context_start
    THEN out \o TrailingMessage(a.full_file_mode, a.chunk_meta, a.all_chunks)
    ELSE LET ln == a.context_start + k + 1
             line_text == a.lines[ln]
             expired == ExpireSlots(slots, ln)
             active == ActivateSlots(expired, smap, ln, dmap, maxd)
             label == LabelAt(a.chunk_meta, ln, maxd)
         IN  IF a.all_chunks = << >>
             THEN RenderRest(a, dmap, maxd, active, MapRemove(smap, ln), k + 1,
                             out \o label
                                 \o <<FallbackContent(line_text, ln, a.match_line)>>)
             ELSE RenderRest(a, dmap, maxd, PostExpireSlots(active, ln),
                             MapRemove(smap, ln), k + 1,
                             out \o label
                                 \o <<RailContent(active, TextChunks(a.all_chunks),
                                                  a.chunk_meta, line_text, ln,
                                                  a.match_line)>>)

\* lines 76-342
CollectChunkDisplayLines(a) ==
    LET structural_chunks == StructuralChunks(a.all_chunks)
        dmap == CalculateChunkDepths(structural_chunks)
        maxd == CalculateMaxDepth(structural_chunks)
        fl == a.context_start + 1
        source_chunks == SourceChunks(structural_chunks, fl, a.context_end)
    IN  RenderRest(a, dmap, maxd,
                   Prepopulate([i \in 1..maxd |-> None], structural_chunks, fl,
                               dmap, maxd),
                   BuildStartMap(source_chunks, fl), 0, << >>)

(***************************************************************************)
(* convert_chunks_to_meta (lines 379-401)                                   *)
(***************************************************************************)
ModuleType == <<"m", "o", "d", "u", "l", "e">>
TypeSpecType == <<"t", "y", "p", "e", "s", "p", "e", "c">>
DocumentationType ==
    <<"d", "o", "c", "u", "m", "e", "n", "t", "a", "t", "i", "o", "n">>

\* the enumerants of ck_chunk::ChunkType
ChunkTypes ==
    {"Function", "Class", "Method", "Module", "TypeSpec", "Documentation", "Text"}

\* lines 384-392
ChunkTypeString(chunk_type) ==
    CASE chunk_type = "Function" -> FunctionType
      [] chunk_type = "Class" -> ClassType
      [] chunk_type = "Method" -> MethodType
      [] chunk_type = "Module" -> ModuleType
      [] chunk_type = "TypeSpec" -> TypeSpecType
      [] chunk_type = "Documentation" -> DocumentationType
      [] chunk_type = "Text" -> TextType

\* a ck_chunk::Chunk, the fields convert_chunks_to_meta reads: breadcrumb is
\* an Option, the other metadata fields are plain values
ChunkMetadata(breadcrumb, ancestry, byte_length, estimated_tokens, leading, trailing) ==
    [breadcrumb |-> breadcrumb,
     ancestry |-> ancestry,
     byte_length |-> byte_length,
     estimated_tokens |-> estimated_tokens,
     leading_trivia |-> leading,
     trailing_trivia |-> trailing]

Chunk(span, chunk_type, metadata) ==
    [span |-> span, chunk_type |-> chunk_type, metadata |-> metadata]

\* lines 382-399: the closure of the map
ConvertChunk(chunk) ==
    [span |-> chunk.span,
     chunk_type |-> Some(ChunkTypeString(chunk.chunk_type)),
     breadcrumb |-> chunk.metadata.breadcrumb,
     ancestry |-> chunk.metadata.ancestry,
     estimated_tokens |-> Some(chunk.metadata.estimated_tokens),
     byte_length |-> Some(chunk.metadata.byte_length),
     leading_trivia |-> Some(chunk.metadata.leading_trivia),
     trailing_trivia |-> Some(chunk.metadata.trailing_trivia)]

\* the mutant of ConvertChunksToMeta: text chunks are left out
ConvertChunksToMetaSkipText(cs) ==
    LET kept == SelectSeq(cs, LAMBDA c : c.chunk_type /= "Text")
    IN  [i \in DOMAIN kept |-> ConvertChunk(kept[i])]

ConvertChunksToMeta(cs) == [i \in DOMAIN cs |-> ConvertChunk(cs[i])]

(***************************************************************************)
(* chunk_file_live (lines 404-425), one fallible step at a time.            *)
(***************************************************************************)
Ok(v) == [ok |-> TRUE, value |-> v]
Err(e) == [ok |-> FALSE, err |-> e]

\* s without a final carriage return
StripCr(s) ==
    IF s /= << >> /\ s[Len(s)] = "\r" THEN SubSeq(s, 1, Len(s) - 1) ELSE s

\* str::lines: split at "\n" or "\r\n"; no empty last line after a final
\* line ending
RECURSIVE SplitLines(_, _)
SplitLines(s, cur) ==
    IF s = << >> THEN (IF cur = << >> THEN << >> ELSE <<cur>>)
    ELSE IF Head(s) = "\n" THEN <<StripCr(cur)>> \o SplitLines(Tail(s), << >>)
    ELSE SplitLines(Tail(s), Append(cur, Head(s)))

\* content.lines().map(String::from).collect()
Lines(s) == SplitLines(s, << >>)

LivePath == <<"s", "r", "c", "/", "a", ".", "r", "s">>

LiveContents ==
    {<< >>,
     <<"f", "n", " ", "a", "(", ")", "\n", " ", "x", "\n">>,
     <<"a", "\r", "\n", "\n", "b">>}

\* what the chunker returns: top-level chunks have no breadcrumb and no
\* ancestry
LiveChunkChoices ==
    {Chunk(sp, ty, md) :
        sp \in SpansUpTo(2), ty \in ChunkTypes,
        md \in {ChunkMetadata(None, << >>, 0, 0, << >>, << >>),
                ChunkMetadata(Some(<<"m", ":", ":", "f">>), << <<"m">>, <<"f">> >>,
                              12, 7, << <<"/", "/", "c">> >>, << >>)}}

ReadOutcomes ==
    {Ok(c) : c \in LiveContents} \cup {Err(<<"permission denied">>)}

ChunkOutcomes ==
    {Ok(cs) : cs \in SeqsUpTo(LiveChunkChoices, MaxLiveChunks)}
    \cup {Err(<<"parse error">>)}

\* the file behind file_path: whether it exists, what reading it gives and
\* what the chunker makes of its content
Files ==
    [path : {LivePath}, exists : BOOLEAN, read : ReadOutcomes,
     chunking : ChunkOutcomes]

InitLive ==
    /\ pc = "live_call"
    /\ file \in Files
    /\ calls = << >>
    /\ content = << >>
    /\ live_chunks = << >>
    /\ result = None
    /\ all_chunks = << >>
    /\ sorted_chunks = << >>
    /\ sweep_i = 0
    /\ stack = << >>
    /\ depth_map = EmptyMap
    /\ max_depth = 0
    /\ lines = << >>
    /\ context_start = 0
    /\ context_end = 0
    /\ match_line = 0
    /\ chunk_meta = None
    /\ full_file_mode = FALSE
    /\ depth_slots = << >>
    /\ start_map = EmptyMap
    /\ idx = 0
    /\ rows = << >>

notLive == <<all_chunks, sweepVars, depth_map, max_depth, context_start, context_end,
             match_line, chunk_meta, full_file_mode, renderLocals>>

\* the mutant of ExistsFails: the result of exists() is not looked at
ExistsFailsNever(f) == FALSE

\* line 407: if !file_path.exists()
ExistsFails(f) == ~f.exists

\* lines 407-409
LiveExists ==
    /\ pc = "live_call"
    /\ calls' = Append(calls, "exists")
    /\ IF ExistsFails(file)
       THEN /\ result' = Some(Err(<<"File does not exist: ">> \o file.path))
            /\ pc' = "live_done"
       ELSE /\ result' = result
            /\ pc' = "live_read"
    /\ UNCHANGED <<file, content, live_chunks, lines, notLive>>

\* lines 411-414: read_to_string, then the lines of the content
LiveRead ==
    /\ pc = "live_read"
    /\ calls' = Append(calls, "read_to_string")
    /\ IF file.read.ok
       THEN /\ content' = file.read.value
            /\ lines' = Lines(file.read.value)
            /\ result' = result
            /\ pc' = "live_chunk"
       ELSE /\ result' = Some(Err(<<"Could not read ">> \o file.path \o <<": ">>
                                  \o file.read.err))
            /\ pc' = "live_done"
            /\ UNCHANGED <<content, lines>>
    /\ UNCHANGED <<file, live_chunks, notLive>>

\* lines 416-419: chunk_text_with_model
LiveChunk ==
    /\ pc = "live_chunk"
    /\ calls' = Append(calls, "chunk_text_with_model")
    /\ IF file.chunking.ok
       THEN /\ live_chunks' = file.chunking.value
            /\ result' = result
            /\ pc' = "live_convert"
       ELSE /\ result' = Some(Err(<<"Failed to chunk file: ">> \o file.chunking.err))
            /\ pc' = "live_done"
            /\ UNCHANGED live_chunks
    /\ UNCHANGED <<file, content, lines, notLive>>

\* lines 421-424: convert_chunks_to_meta and the Ok value
LiveReturn ==
    /\ pc = "live_convert"
    /\ result' = Some(Ok(<<lines, ConvertChunksToMeta(live_chunks)>>))
    /\ pc' = "live_done"
    /\ UNCHANGED <<file, calls, content, live_chunks, lines, notLive>>

NextLive == LiveExists \/ LiveRead \/ LiveChunk \/ LiveReturn

SpecLive == InitLive /\ [][NextLive]_vars

(***************************************************************************)
(* Claims about the depth sweep, checked under SpecDepth.                   *)
(***************************************************************************)
SweepOver == pc \in {"depths_returned", "depths_done"}

\* a's span contains c's span, and a does not merely end on c's first line
EnclosesSpan(a, c) ==
    /\ a.span.line_start <= c.span.line_start
    /\ c.span.line_end <= a.span.line_end
    /\ a.span.line_end > c.span.line_start

\* the chunks of all_chunks other than the i-th that enclose the i-th
Ancestors(i) ==
    {j \in DOMAIN all_chunks : j /= i /\ EnclosesSpan(all_chunks[j], all_chunks[i])}

\* b starts strictly inside a and ends after a
PartiallyOverlap(a, b) ==
    /\ a.span.line_start < b.span.line_start
    /\ b.span.line_start < a.span.line_end
    /\ a.span.line_end < b.span.line_end

NoPartialOverlap ==
    \A i, j \in DOMAIN all_chunks : ~PartiallyOverlap(all_chunks[i], all_chunks[j])

DepthIsAncestorCount ==
    \A i \in DOMAIN all_chunks :
        /\ SpanKey(all_chunks[i]) \in DOMAIN depth_map
        /\ depth_map[SpanKey(all_chunks[i])] = Cardinality(Ancestors(i))

\* C1 as stated: for every chunk set, once the sweep is over, each chunk's
\* depth is the number of other chunks whose span contains its span (a chunk
\* contained in none has depth 0), chunks that only share a boundary line
\* not counted.
C1_DepthIsEnclosureCount == SweepOver => DepthIsAncestorCount

\* C1 amended: the same for every chunk set in which no two chunks partially
\* overlap (no chunk starts strictly inside another and ends after it).
C1_DepthIsEnclosureCountWhenNested ==
    (SweepOver /\ NoPartialOverlap) => DepthIsAncestorCount

\* C1 witness: a nested chunk set of three chunks swept to depths 0, 1 and 2.
C1_Witness ==
    /\ SweepOver
    /\ NoPartialOverlap
    /\ Len(all_chunks) = 3
    /\ MapValues(depth_map) = {0, 1, 2}
    /\ \E i \in DOMAIN all_chunks : Cardinality(Ancestors(i)) = 2

\* the chunks before position i of the sweep order that are still open on
\* the first line of the chunk at position i
OpenBefore(i) ==
    {j \in 1..(i - 1) :
        sorted_chunks[j].span.line_end > sorted_chunks[i].span.line_start}

\* C4: when chunk B has just been given its depth, no entry left on the stack
\* under B ends on or before B's first line, and B's depth is the number of
\* those entries: a chunk A with A.line_end <= B.line_start does not count.
\* Spans (1,5),(5,10) both get depth 0; spans (1,10),(2,5),(6,9) get depths
\* 0,1,1 and max_depth 2.
C4_ClosedSiblingNotCounted ==
    /\ (pc = "sweep" /\ sweep_i > 1) =>
          LET b == sorted_chunks[sweep_i - 1]
              n == Len(stack)
          IN  /\ n >= 1
              /\ stack[n] = <<b.span.line_start, b.span.line_end, n - 1>>
              /\ depth_map[SpanKey(b)] = n - 1
              /\ \A k \in 1..(n - 1) : stack[k][2] > b.span.line_start
              /\ n - 1 <= Cardinality(OpenBefore(sweep_i - 1))
    /\ (SweepOver /\ all_chunks = BoundaryScenario) =>
          depth_map = (<<1, 5>> :> 0) @@ (<<5, 10>> :> 0)
    /\ (SweepOver /\ all_chunks = SiblingScenario) =>
          depth_map = (<<1, 10>> :> 0) @@ (<<2, 5>> :> 1) @@ (<<6, 9>> :> 1)
    /\ (pc = "depths_done" /\ all_chunks = SiblingScenario) => max_depth = 2

\* C4 witness: the boundary scenario swept, the chunk starting on the other's
\* last line at depth 0.
C4_Witness ==
    /\ pc = "depths_done"
    /\ all_chunks = BoundaryScenario
    /\ depth_map[<<5, 10>>] = 0

\* C6: max_depth is one more than the largest depth of the map (some entry
\* has depth max_depth - 1 and none has more), it is 1 for the empty chunk
\* set, it is at least 1 and every depth of the map is below it.
C6_MaxDepthIsMaxPlusOne ==
    pc = "depths_done" =>
        /\ max_depth >= 1
        /\ \A k \in DOMAIN depth_map : depth_map[k] < max_depth
        /\ all_chunks = << >> => max_depth = 1
        /\ all_chunks /= << >> => \E k \in DOMAIN depth_map : depth_map[k] = max_depth - 1

\* C6 witness: a non-empty chunk set whose deepest chunk has depth 2.
C6_Witness ==
    /\ pc = "depths_done"
    /\ max_depth = 3
    /\ \E k \in DOMAIN depth_map : depth_map[k] = 2

\* the last position of the sweep order that holds span key
LastWithSpan(key) ==
    CHOOSE i \in DOMAIN sorted_chunks :
        /\ SpanKey(sorted_chunks[i]) = key
        /\ \A j \in DOMAIN sorted_chunks : SpanKey(sorted_chunks[j]) = key => j <= i

\* C7: the depth map has one entry per distinct span of the input, and the
\* value stored for a span is the depth computed for the last chunk of the
\* sweep order that has this span.
C7_OneEntryPerSpanLastWins ==
    SweepOver =>
        /\ DOMAIN depth_map = {SpanKey(all_chunks[i]) : i \in DOMAIN all_chunks}
        /\ Cardinality(DOMAIN depth_map)
              = Cardinality({all_chunks[i].span : i \in DOMAIN all_chunks})
        /\ \A key \in DOMAIN depth_map :
              depth_map[key] = Cardinality(OpenBefore(LastWithSpan(key)))

\* C7 witness: two chunks share a multi-line span; the one entry of the span
\* holds the depth of the second, 1 or more.
C7_Witness ==
    /\ SweepOver
    /\ \E i, j \in DOMAIN all_chunks :
          /\ i < j
          /\ all_chunks[i].span = all_chunks[j].span
          /\ depth_map[SpanKey(all_chunks[i])] >= 1
    /\ Cardinality(DOMAIN depth_map) < Len(all_chunks)

\* sorted_chunks is all_chunks by line_start ascending and, among equal
\* starts, line_end descending
InReferenceOrder ==
    /\ Len(sorted_chunks) = Len(all_chunks)
    /\ \A x \in Range(all_chunks) :
          Cardinality({i \in DOMAIN all_chunks : all_chunks[i] = x})
              = Cardinality({i \in DOMAIN sorted_chunks : sorted_chunks[i] = x})
    /\ \A i, j \in DOMAIN sorted_chunks :
          i < j => \/ sorted_chunks[i].span.line_start < sorted_chunks[j].span.line_start
                   \/ /\ sorted_chunks[i].span.line_start = sorted_chunks[j].span.line_start
                      /\ sorted_chunks[i].span.line_end >= sorted_chunks[j].span.line_end

\* C20: the sweep goes over the chunks in the reference order, and the depth
\* it has just computed for a chunk is the number of chunks earlier in that
\* order whose line_end is greater than the chunk's line_start, enclosing or
\* not, duplicates included; once the sweep is over, of two chunks with the
\* same line_start and different line_end the longer has the smaller depth.
C20_DepthIsOpenEarlierCount ==
    /\ pc = "sweep" => InReferenceOrder
    /\ (pc = "sweep" /\ sweep_i > 1) =>
          LET b == sorted_chunks[sweep_i - 1]
          IN  /\ depth_map[SpanKey(b)] = Cardinality(OpenBefore(sweep_i - 1))
              /\ stack[Len(stack)][3] = Cardinality(OpenBefore(sweep_i - 1))
              /\ Len(stack) = Cardinality(OpenBefore(sweep_i - 1)) + 1
    /\ SweepOver =>
          \A i, j \in DOMAIN all_chunks :
              (/\ all_chunks[i].span.line_start = all_chunks[j].span.line_start
               /\ all_chunks[i].span.line_end > all_chunks[j].span.line_end)
                  => depth_map[SpanKey(all_chunks[i])] < depth_map[SpanKey(all_chunks[j])]

\* C20 witness: a chunk has just been given depth 2 although only one of
\* the two earlier chunks that are open on its first line contains it.
C20_Witness ==
    /\ pc = "sweep"
    /\ sweep_i > 1
    /\ LET b == sorted_chunks[sweep_i - 1]
       IN  /\ depth_map[SpanKey(b)] = 2
           /\ Cardinality(OpenBefore(sweep_i - 1)) = 2
           /\ \E j \in OpenBefore(sweep_i - 1) :
                 sorted_chunks[j].span.line_end < b.span.line_end

(***************************************************************************)
(* Claims about collect_chunk_display_lines, checked under Spec (and, for   *)
(* the label text, under SpecLabel).                                        *)
(***************************************************************************)
Rendering == pc \in {"render_loop", "render_done"}

ContentRows == {i \in DOMAIN rows : rows[i].kind = "Content"}
LabelRows == {i \in DOMAIN rows : rows[i].kind = "Label"}
MessageRows == {i \in DOMAIN rows : rows[i].kind = "Message"}

Visible(l) == first_line <= l /\ l <= last_line

InSpan(span, l) == span.line_start <= l /\ l <= span.line_end

\* a step of the loop over the visible lines
RenderStep == pc = "render_loop" /\ idx' = idx + 1

\* the rail as the Content row of the current line is built from it
RailAtRender ==
    ActivateSlots(ExpireSlots(depth_slots, line_num), start_map, line_num,
                  depth_map, max_depth)

\* C2 as stated: with a matched chunk M, on the Content row of every visible
\* line a column has is_match exactly when the occupant of its rail slot has
\* M's span; when M is one of the structural chunks, every visible line of
\* M's span has a column with is_match; on a line outside M's span no column
\* has is_match.
C2_IsMatchOnEveryLineOfMatchedSpan ==
    [][(RenderStep /\ IsSome(chunk_meta)) =>
          LET row == rows'[Len(rows')]
              rail == RailAtRender
              m == Unwrap(chunk_meta)
          IN  /\ \A d \in DOMAIN row.columns :
                    row.columns[d].is_match
                       <=> /\ d \in DOMAIN rail
                           /\ IsSome(rail[d])
                           /\ Unwrap(rail[d]).span = m.span
              /\ (/\ InSpan(m.span, line_num)
                  /\ IsStructural(m)
                  /\ \E i \in DOMAIN all_chunks : all_chunks[i] = m)
                    => \E d \in DOMAIN row.columns : row.columns[d].is_match
              /\ ~InSpan(m.span, line_num)
                    => \A d \in DOMAIN row.columns : ~row.columns[d].is_match]_vars

\* the symbol the claim expects for span on line l
SymbolOfSpan(span, l) ==
    CASE span.line_start = span.line_end -> BoxHorizontal
      [] span.line_start /= span.line_end /\ l = span.line_start -> BoxDownRight
      [] span.line_start /= span.line_end /\ l = span.line_end -> BoxUpRight
      [] OTHER -> BoxVertical

\* C3 as stated: once the render is over, for every structural chunk inside
\* the visible window the column of the chunk's depth shows, down the lines
\* of its span, the single-line symbol, or the start symbol, connectors on
\* the interior lines and the end symbol on the last line.
C3_RailSymbolsSpellEverySpan ==
    pc = "render_done" =>
        \A i \in DOMAIN all_chunks :
            LET c == all_chunks[i]
            IN  (IsStructural(c) /\ Visible(c.span.line_start) /\ Visible(c.span.line_end))
                    => \A l \in c.span.line_start..c.span.line_end :
                          \E r \in ContentRows :
                             /\ rows[r].line_num = l
                             /\ depth_map[SpanKey(c)] + 1 \in DOMAIN rows[r].columns
                             /\ rows[r].columns[depth_map[SpanKey(c)] + 1].ch
                                   = SymbolOfSpan(c.span, l)

\* C5 as stated: every Content row has exactly max_depth columns, for every
\* input, the empty chunk set included.
C5_ContentWidthIsMaxDepth ==
    Rendering => \A i \in ContentRows : Len(rows[i].columns) = max_depth

\* C5 amended: every Content row has exactly max_depth columns whenever the
\* chunk set is not empty (lines covered only by a text chunk included); for
\* the empty chunk set max_depth is 1 and a Content row has two columns or
\* none.
C5_ContentWidthIsMaxDepthWithChunks ==
    Rendering =>
        \A i \in ContentRows :
            IF all_chunks /= << >>
            THEN Len(rows[i].columns) = max_depth
            ELSE max_depth = 1 /\ Len(rows[i].columns) \in {0, 2}

\* C5 witness: with two rail columns, a Content row of a line that only a text
\* chunk covers: the text symbol in column 0, the width still max_depth.
C5_Witness ==
    /\ Rendering
    /\ max_depth = 2
    /\ \E i \in ContentRows :
          /\ \E j \in DOMAIN all_chunks :
                IsText(all_chunks[j]) /\ InSpan(all_chunks[j].span, rows[i].line_num)
          /\ \A j \in DOMAIN all_chunks :
                IsStructural(all_chunks[j]) => ~InSpan(all_chunks[j].span, rows[i].line_num)
          /\ Len(rows[i].columns) = 2
          /\ rows[i].columns[1].ch = MiddleDot

\* C8: at most one Label row is ever written; a Label row is written only
\* with a matched chunk whose line_start is visible, stands immediately
\* before the Content row of that line and is indented by max_depth, the
\* max_depth of the structural chunks; once the render is over the Label row
\* is there whenever the matched chunk's line_start is visible.
C8_LabelOnceBeforeFirstLine ==
    /\ Cardinality(LabelRows) <= 1
    /\ \A i \in LabelRows :
          /\ IsSome(chunk_meta)
          /\ Visible(Unwrap(chunk_meta).span.line_start)
          /\ i + 1 \in ContentRows
          /\ rows[i + 1].line_num = Unwrap(chunk_meta).span.line_start
          /\ rows[i].prefix = max_depth
          /\ rows[i].prefix = CalculateMaxDepth(StructuralChunks(all_chunks))
    /\ (/\ pc = "render_done"
        /\ IsSome(chunk_meta)
        /\ Visible(Unwrap(chunk_meta).span.line_start)) => LabelRows /= {}

\* C8 witness: the render is over; the one Label row of a multi-line matched
\* chunk stands after the Content row of an earlier line.
C8_Witness ==
    /\ pc = "render_done"
    /\ IsSome(chunk_meta)
    /\ Unwrap(chunk_meta).span.line_start < Unwrap(chunk_meta).span.line_end
    /\ all_chunks /= << >>
    /\ \E i \in LabelRows : i > 1 /\ i + 1 < Len(rows)

\* the label's parenthesised part is there: a non-empty breadcrumb, or else a
\* non-empty ancestry
HasCrumb(m) ==
    (IsSome(m.breadcrumb) /\ Unwrap(m.breadcrumb) /= << >>) \/ m.ancestry /= << >>

CrumbOf(m) ==
    IF IsSome(m.breadcrumb) /\ Unwrap(m.breadcrumb) /= << >>
    THEN Unwrap(m.breadcrumb)
    ELSE Join(m.ancestry, <<":", ":">>)

TokensWord == <<" ", "t", "o", "k", "e", "n", "s">>

\* C9 as stated: the Label text of a matched chunk with a chunk_type is
\* "<chunk_type> (<crumb>)  <bullet> <N> tokens": one space before the
\* parenthesis, two spaces before the bullet, either segment left out when
\* its data is absent.
C9_LabelTextAsStated ==
    \A i \in LabelRows :
        LET m == Unwrap(chunk_meta)
        IN  IsSome(m.chunk_type) =>
               rows[i].text =
                  Unwrap(m.chunk_type)
                  \o (IF HasCrumb(m) THEN <<" ", "(">> \o CrumbOf(m) \o <<")">> ELSE << >>)
                  \o (IF IsSome(m.estimated_tokens)
                      THEN <<" ", " ", Bullet, " ">> \o Decimal(Unwrap(m.estimated_tokens))
                           \o TokensWord
                      ELSE << >>)

\* C9 amended: the Label text is the chunk_type ("chunk" when absent), then
\* two spaces and the parenthesised part when there is one and a single
\* space when there is none, then, when estimated_tokens is present, one
\* space, the bullet, one space, N and " tokens".  Three labels are spelled
\* out.
C9_LabelTextAsWritten ==
    \A i \in LabelRows :
        LET m == Unwrap(chunk_meta)
        IN  /\ rows[i].text =
                  (IF IsSome(m.chunk_type) THEN Unwrap(m.chunk_type)
                   ELSE <<"c", "h", "u", "n", "k">>)
                  \o (IF HasCrumb(m) THEN <<" ", " ", "(">> \o CrumbOf(m) \o <<")">>
                      ELSE <<" ">>)
                  \o (IF IsSome(m.estimated_tokens)
                      THEN <<" ", Bullet, " ">> \o Decimal(Unwrap(m.estimated_tokens))
                           \o TokensWord
                      ELSE << >>)
            /\ (/\ m.chunk_type = Some(FunctionType)
                /\ m.breadcrumb = Some(<<"m", ":", ":", "f">>)
                /\ m.estimated_tokens = Some(7))
                  => rows[i].text = <<"f", "u", "n", "c", "t", "i", "o", "n", " ", " ", "(",
                                      "m", ":", ":", "f", ")", " ", Bullet, " ", "7",
                                      " ", "t", "o", "k", "e", "n", "s">>
            /\ (/\ m.chunk_type = None
                /\ m.breadcrumb = Some(<< >>)
                /\ m.ancestry = << <<"m">>, <<"f">> >>
                /\ m.estimated_tokens = Some(120))
                  => rows[i].text = <<"c", "h", "u", "n", "k", " ", " ", "(",
                                      "m", ":", ":", "f", ")", " ", Bullet, " ", "1", "2", "0",
                                      " ", "t", "o", "k", "e", "n", "s">>
            /\ (/\ m.chunk_type = Some(TextType)
                /\ m.breadcrumb = None
                /\ m.ancestry = << >>
                /\ m.estimated_tokens = None)
                  => rows[i].text = <<"t", "e", "x", "t", " ">>

\* C9 witness: a Label row written for a matched chunk with a type, a
\* breadcrumb and a token estimate.
C9_Witness ==
    /\ pc = "render_done"
    /\ LabelRows /= {}
    /\ Unwrap(chunk_meta).chunk_type = Some(FunctionType)
    /\ Unwrap(chunk_meta).breadcrumb = Some(<<"m", ":", ":", "f">>)
    /\ Unwrap(chunk_meta).estimated_tokens = Some(120)

\* C10: no Message row is written before the loop is over; once the render is
\* over there is a Message row exactly when full_file_mode is false, no
\* matched chunk was given and all_chunks is not empty, and then it is the
\* fixed text, the last row and the only Message.
C10_TrailingMessage ==
    /\ pc /= "render_done" => MessageRows = {}
    /\ pc = "render_done" =>
          /\ MessageRows /= {}
                <=> (~full_file_mode /\ ~IsSome(chunk_meta) /\ all_chunks /= << >>)
          /\ MessageRows \subseteq {Len(rows)}
          /\ \A i \in MessageRows : rows[i].text = MessageText

\* C10 witness: the Message row closes an output that holds Content rows.
C10_Witness ==
    /\ pc = "render_done"
    /\ Len(rows) >= 3
    /\ rows[Len(rows)].kind = "Message"
    /\ ContentRows /= {}

(***************************************************************************)
(* Claims about the no-chunk fallback, checked under SpecFallback.          *)
(***************************************************************************)
DefinitionWords ==
    {<<"f", "n">>, <<"f", "u", "n", "c">>, <<"d", "e", "f">>,
     <<"c", "l", "a", "s", "s">>, <<"i", "m", "p", "l">>,
     <<"s", "t", "r", "u", "c", "t">>, <<"e", "n", "u", "m">>}

\* text holds, after leading blanks and tabs only, a definition word and then
\* a space
BeginsWithDefinitionWord(text) ==
    \E p \in DOMAIN text : \E w \in DefinitionWords :
        /\ \A q \in 1..(p - 1) : text[q] \in {" ", "\t"}
        /\ p + Len(w) <= Len(text)
        /\ SubSeq(text, p, p + Len(w) - 1) = w
        /\ text[p + Len(w)] = " "

RowOfLine(l) == {i \in ContentRows : rows[i].line_num = l}

\* C11: with all_chunks empty, once the render is over every visible line has
\* a Content row; the row of a line that begins, after leading whitespace,
\* with a definition keyword and a space has exactly the two boundary-marker
\* columns and has_any_chunk; the row of any other line has no columns and
\* no has_any_chunk; no column has is_match and in_matched_chunk is false,
\* matched chunk or not.
C11_FallbackMarksDefinitionLines ==
    (pc = "render_done" /\ all_chunks = << >>) =>
        \A l \in first_line..last_line :
            /\ RowOfLine(l) /= {}
            /\ \A i \in RowOfLine(l) :
                  /\ IF BeginsWithDefinitionWord(lines[l])
                     THEN /\ Len(rows[i].columns) = 2
                          /\ rows[i].columns[1].ch = BoxHeavyVerticalRight
                          /\ rows[i].columns[2].ch = BoxHeavyHorizontal
                          /\ rows[i].has_any_chunk
                     ELSE /\ rows[i].columns = << >>
                          /\ ~rows[i].has_any_chunk
                  /\ \A d \in DOMAIN rows[i].columns : ~rows[i].columns[d].is_match
                  /\ ~rows[i].in_matched_chunk

\* C11 witness: a file without chunks rendered with a matched chunk given; a
\* tab-indented "class B" line has the two marker columns, a line inside the
\* matched chunk's span has none.
C11_Witness ==
    /\ pc = "render_done"
    /\ all_chunks = << >>
    /\ IsSome(chunk_meta)
    /\ \E i \in ContentRows :
          /\ rows[i].text = <<"\t", "c", "l", "a", "s", "s", " ", "B">>
          /\ Len(rows[i].columns) = 2
    /\ \E i \in ContentRows :
          /\ InSpan(Unwrap(chunk_meta).span, rows[i].line_num)
          /\ rows[i].columns = << >>

(***************************************************************************)
(* Claims about the rows of one render, checked under Spec.                 *)
(***************************************************************************)
\* the Content rows of the output, in output order
ContentSeq == SelectSeq(rows, LAMBDA r : r.kind = "Content")

\* C12: for every window 0 <= context_start <= context_end <= Len(lines) the
\* loop only reads lines that exist; while it runs the Content rows written
\* so far are those of the first idx visible lines; once the render is over
\* the Content rows are exactly those of lines context_start + 1 ..
\* context_end in ascending order, each with the line's raw text and
\* is_match_line = (line number = match_line).
C12_OneContentRowPerVisibleLine ==
    /\ (pc = "render_loop" /\ idx < context_end - context_start)
          => context_start + idx + 1 \in DOMAIN lines
    /\ Rendering =>
          LET cs == ContentSeq
          IN  /\ pc = "render_loop" => Len(cs) = idx
              /\ pc = "render_done" => Len(cs) = context_end - context_start
              /\ \A k \in DOMAIN cs :
                    /\ cs[k].line_num = context_start + k
                    /\ cs[k].text = lines[context_start + k]
                    /\ cs[k].is_match_line = (context_start + k = match_line)

\* C12 witness: a window that starts below the top of the file has been
\* rendered to two Content rows, the match line among them, next to a Label
\* and the Message or both.
C12_Witness ==
    /\ pc = "render_done"
    /\ context_start >= 1
    /\ Len(ContentSeq) = 2
    /\ Len(rows) > 2
    /\ \E k \in DOMAIN ContentSeq : ContentSeq[k].is_match_line

\* the positions of the structural chunks of all_chunks
StructuralAt == {i \in DOMAIN all_chunks : IsStructural(all_chunks[i])}

ShareNoLine(a, b) ==
    a.span.line_end < b.span.line_start \/ b.span.line_end < a.span.line_start

StrictlyContains(outer, inner) ==
    /\ outer.span.line_start < inner.span.line_start
    /\ inner.span.line_end < outer.span.line_end

\* any two structural chunks share no line or one strictly contains the other
StrictlyNestedOrApart ==
    \A i, j \in StructuralAt :
        i /= j => \/ ShareNoLine(all_chunks[i], all_chunks[j])
                  \/ StrictlyContains(all_chunks[i], all_chunks[j])
                  \/ StrictlyContains(all_chunks[j], all_chunks[i])

\* the symbols column d shows on the Content rows, keyed by line number
ColumnDown(d) ==
    [l \in {rows[i].line_num : i \in ContentRows} |->
        LET i == CHOOSE r \in ContentRows : rows[r].line_num = l
        IN  rows[i].columns[d].ch]

\* C15: when any two structural chunks share no line or one strictly
\* contains the other, then as a visible line is rendered every structural
\* chunk whose span covers the line is the occupant of the rail slot of its
\* depth, and the Content row shows its symbol in that column.  For the
\* chunks (1,10),(2,5),(6,9) rendered whole, column 0 shows the first chunk
\* on lines 1-10 and column 1 the second on lines 2-5, then the third on
\* lines 6-9, and nothing on lines 1 and 10.
C15_NestedChunksKeepTheirColumn ==
    /\ (pc = "render_loop" /\ idx < context_end - context_start
           /\ StrictlyNestedOrApart) =>
          LET rail == RailAtRender
          IN  \A i \in StructuralAt :
                  InSpan(all_chunks[i].span, line_num) =>
                      /\ depth_map[SpanKey(all_chunks[i])] + 1 \in DOMAIN depth_slots
                      /\ rail[depth_map[SpanKey(all_chunks[i])] + 1]
                            = Some(all_chunks[i])
    /\ (Rendering /\ StrictlyNestedOrApart) =>
          \A r \in ContentRows : \A i \in StructuralAt :
              InSpan(all_chunks[i].span, rows[r].line_num) =>
                  rows[r].columns[depth_map[SpanKey(all_chunks[i])] + 1].ch
                      = SymbolOfSpan(all_chunks[i].span, rows[r].line_num)
    /\ (pc = "render_done" /\ all_chunks = SiblingScenario
           /\ context_start = 0 /\ context_end = Len(lines)) =>
          /\ ColumnDown(1) =
                [l \in 1..10 |-> IF l = 1 THEN BoxDownRight
                                 ELSE IF l = 10 THEN BoxUpRight ELSE BoxVertical]
          /\ ColumnDown(2) =
                [l \in 1..10 |-> CASE l \in {1, 10} -> Blank
                                   [] l \in {2, 6} -> BoxDownRight
                                   [] l \in {5, 9} -> BoxUpRight
                                   [] OTHER -> BoxVertical]

\* C15 witness: the chunks (1,10),(2,5),(6,9) rendered from the top as far as
\* line 6 or further: on line 6 column 1 shows the start of the third chunk
\* where line 5 showed the end of the second.
C15_Witness ==
    /\ Rendering
    /\ all_chunks = SiblingScenario
    /\ StrictlyNestedOrApart
    /\ \E r \in ContentRows :
          /\ rows[r].line_num = 6
          /\ rows[r].columns[2].ch = BoxDownRight
          /\ r - 1 \in ContentRows
          /\ rows[r - 1].columns[2].ch = BoxUpRight

\* the structural chunks that started before the window and are open on its
\* first line
OpenAtWindowTop ==
    {i \in StructuralAt :
        /\ all_chunks[i].span.line_start < first_line
        /\ first_line <= all_chunks[i].span.line_end}

\* before the first visible line is rendered, every such chunk is in the slot
\* of its depth
PrepopulatedInOwnSlot ==
    (pc = "render_loop" /\ idx = 0) =>
        \A i \in OpenAtWindowTop :
            LET d == depth_map[SpanKey(all_chunks[i])] + 1
            IN  /\ d \in DOMAIN depth_slots
                /\ IsSome(depth_slots[d])
                /\ Unwrap(depth_slots[d]).span = all_chunks[i].span

\* on the Content row of the first visible line the column of every such
\* chunk shows a connector or an end symbol
ContinuedOnFirstLine ==
    Rendering =>
        \A r \in ContentRows :
            rows[r].line_num = first_line =>
                \A i \in OpenAtWindowTop :
                    rows[r].columns[depth_map[SpanKey(all_chunks[i])] + 1].ch
                        \in {BoxVertical, BoxUpRight}

\* C16 as stated: every structural chunk with line_start < first visible
\* line <= line_end is in the rail slot of its depth before the first
\* visible line is rendered, and on the first visible line its column shows
\* a connector or an end symbol, never a start symbol and never a blank.
C16_PrepopulatedChunksContinue ==
    PrepopulatedInOwnSlot /\ ContinuedOnFirstLine

\* the chunks of type "text" and the other chunks, by position
TextAt == {i \in DOMAIN all_chunks : all_chunks[i].chunk_type = Some(TextType)}
AllButText == SelectSeq(all_chunks, LAMBDA m : m.chunk_type /= Some(TextType))

\* the marker of a text chunk with span on line l
TextMarker(span, l) ==
    CASE span.line_start = span.line_end -> MiddleDot
      [] span.line_start /= span.line_end /\ l = span.line_start -> BoxDownRight
      [] span.line_start /= span.line_end /\ l = span.line_end -> BoxUpRight
      [] OTHER -> BoxVertical

\* C17: with a non-empty chunk set, as a visible line is rendered: the row
\* has as many columns as the rail has slots; when no slot is occupied and a
\* text chunk covers the line, column 0 shows the marker of a covering text
\* chunk, the other columns are blank and no column has is_match; when a
\* slot is occupied every column is as the rail alone gives it (the
\* occupant's symbol or a blank); has_any_chunk is (a slot is occupied or a
\* text chunk covers the line).  No slot ever holds a text chunk, and the
\* depth map and max_depth are those of the chunks other than text chunks.
C17_TextOverlayOnlyOnEmptyRail ==
    [][(RenderStep /\ all_chunks /= << >>) =>
          LET row == rows'[Len(rows')]
              rail == RailAtRender
              occupied == \E d \in DOMAIN rail : IsSome(rail[d])
              covering == {i \in TextAt : InSpan(all_chunks[i].span, line_num)}
          IN  /\ Len(row.columns) = Len(rail)
              /\ Len(rail) = max_depth
              /\ (~occupied /\ covering /= {}) =>
                    /\ \E i \in covering :
                          row.columns[1].ch = TextMarker(all_chunks[i].span, line_num)
                    /\ \A d \in DOMAIN row.columns :
                          /\ ~row.columns[d].is_match
                          /\ d > 1 => row.columns[d].ch = Blank
              /\ (occupied \/ covering = {}) =>
                    \A d \in DOMAIN row.columns :
                        row.columns[d].ch =
                            IF IsSome(rail[d])
                            THEN SymbolOfSpan(Unwrap(rail[d]).span, line_num)
                            ELSE Blank
              /\ row.has_any_chunk <=> (occupied \/ covering /= {})
              /\ \A d \in DOMAIN rail :
                    IsSome(rail[d]) => Unwrap(rail[d]).chunk_type /= Some(TextType)
              /\ \A d \in DOMAIN depth_slots' :
                    IsSome(depth_slots'[d])
                        => Unwrap(depth_slots'[d]).chunk_type /= Some(TextType)
              /\ depth_map = CalculateChunkDepths(AllButText)
              /\ max_depth = CalculateMaxDepth(AllButText)]_vars

\* C17 witness: a text chunk covers two rendered lines; on the one a
\* structural chunk occupies the rail and the column shows that chunk's
\* symbol, on the other the rail is empty and column 0 shows the text
\* chunk's end marker.
C17_Witness ==
    /\ Rendering
    /\ \E i \in TextAt : \E r1, r2 \in ContentRows :
          /\ InSpan(all_chunks[i].span, rows[r1].line_num)
          /\ InSpan(all_chunks[i].span, rows[r2].line_num)
          /\ rows[r1].columns[1].ch = BoxHorizontal
          /\ rows[r2].columns[1].ch = BoxUpRight
          /\ ~rows[r2].columns[1].is_match
          /\ rows[r2].has_any_chunk
          /\ \A j \in DOMAIN all_chunks \ TextAt :
                ~InSpan(all_chunks[j].span, rows[r2].line_num)

\* all_chunks in the order p, a permutation of its positions
Reordered(p) == [i \in DOMAIN all_chunks |-> all_chunks[p[i]]]

\* the call that was made, with all_chunks replaced by cks
SameCallWith(cks) ==
    RenderCall(lines, context_start, context_end, match_line, chunk_meta, cks,
               full_file_mode)

\* the rows written are those the function gives for the call made
RowsAreTheFunctionOfTheCall ==
    pc = "render_done" => rows = CollectChunkDisplayLines(SameCallWith(all_chunks))

\* C18 as stated: once the render is over, the rows are the rows the same
\* call gives for every reordering of all_chunks, and so are the depth map
\* and max_depth.
C18_OutputIndependentOfChunkOrder ==
    pc = "render_done" =>
        \A p \in Permutations(DOMAIN all_chunks) :
            /\ CalculateChunkDepths(StructuralChunks(Reordered(p))) = depth_map
            /\ CalculateMaxDepth(StructuralChunks(Reordered(p))) = max_depth
            /\ CollectChunkDisplayLines(SameCallWith(Reordered(p))) = rows

\* C19: as the Content row of visible line L is built, every occupied rail
\* slot d holds one of the file's structural chunks, whose span covers L and
\* whose depth in the depth map is d; once the slots have been cleared after
\* L, no occupied slot holds a chunk with line_end <= L; no rail slot ever
\* holds a text chunk.
C19_RailHoldsOpenChunksAtTheirDepth ==
    /\ (pc = "render_loop" /\ idx < context_end - context_start) =>
          LET rail == RailAtRender
          IN  \A d \in DOMAIN rail :
                  IsSome(rail[d]) =>
                      LET c == Unwrap(rail[d])
                      IN  /\ \E i \in DOMAIN all_chunks : all_chunks[i] = c
                          /\ c.chunk_type /= Some(TextType)
                          /\ c.span.line_start <= line_num
                          /\ line_num <= c.span.line_end
                          /\ SpanKey(c) \in DOMAIN depth_map
                          /\ depth_map[SpanKey(c)] = d - 1
    /\ (Rendering /\ idx >= 1) =>
          \A d \in DOMAIN depth_slots :
              IsSome(depth_slots[d])
                  => Unwrap(depth_slots[d]).span.line_end > context_start + idx
    /\ \A d \in DOMAIN depth_slots :
          IsSome(depth_slots[d]) => Unwrap(depth_slots[d]).chunk_type /= Some(TextType)

\* C19 witness: two rail slots; a line has been rendered on which the chunk
\* of slot 1 ended: slot 1 is empty again, slot 0 still holds the enclosing
\* chunk, which ends further down.
C19_Witness ==
    /\ pc = "render_loop"
    /\ idx >= 1
    /\ Len(depth_slots) = 2
    /\ IsSome(depth_slots[1])
    /\ depth_slots[2] = None
    /\ \E i \in DOMAIN all_chunks :
          /\ all_chunks[i].chunk_type /= Some(TextType)
          /\ all_chunks[i].span.line_end = context_start + idx
          /\ depth_map[SpanKey(all_chunks[i])] = 1

(***************************************************************************)
(* Claims about convert_chunks_to_meta and chunk_file_live, checked under   *)
(* SpecLive.                                                                *)
(***************************************************************************)
LiveDone == pc = "live_done"
LiveOk == LiveDone /\ Unwrap(result).ok

\* the chunk metas of the value returned
ChunkMetas == Unwrap(result).value[2]

\* one meta per chunk, in order, the span copied
MetasFollowChunks ==
    /\ Len(ChunkMetas) = Len(live_chunks)
    /\ \A i \in DOMAIN live_chunks : ChunkMetas[i].span = live_chunks[i].span

\* C13 as stated: the metas returned are one per chunk, in input order, with
\* the span copied, and chunk_type, breadcrumb, estimated_tokens,
\* byte_length, leading_trivia and trailing_trivia are all present in each.
C13_EveryOptionalFieldPresent ==
    LiveOk =>
        /\ MetasFollowChunks
        /\ \A i \in DOMAIN ChunkMetas :
              /\ IsSome(ChunkMetas[i].chunk_type)
              /\ IsSome(ChunkMetas[i].breadcrumb)
              /\ IsSome(ChunkMetas[i].estimated_tokens)
              /\ IsSome(ChunkMetas[i].byte_length)
              /\ IsSome(ChunkMetas[i].leading_trivia)
              /\ IsSome(ChunkMetas[i].trailing_trivia)

\* C13 amended: the metas returned are one per chunk, in input order, with
\* the span copied; chunk_type (the display string of the chunk's type),
\* estimated_tokens, byte_length, leading_trivia and trailing_trivia are
\* present in each; breadcrumb and ancestry are the chunk's own, breadcrumb
\* absent when the chunk has none.
C13_WrappedFieldsPresent ==
    LiveOk =>
        /\ MetasFollowChunks
        /\ \A i \in DOMAIN ChunkMetas :
              LET c == live_chunks[i]
                  m == ChunkMetas[i]
              IN  /\ IsSome(m.chunk_type)
                  /\ Unwrap(m.chunk_type) = ChunkTypeString(c.chunk_type)
                  /\ IsSome(m.estimated_tokens)
                  /\ Unwrap(m.estimated_tokens) = c.metadata.estimated_tokens
                  /\ IsSome(m.byte_length)
                  /\ Unwrap(m.byte_length) = c.metadata.byte_length
                  /\ IsSome(m.leading_trivia)
                  /\ Unwrap(m.leading_trivia) = c.metadata.leading_trivia
                  /\ IsSome(m.trailing_trivia)
                  /\ Unwrap(m.trailing_trivia) = c.metadata.trailing_trivia
                  /\ m.breadcrumb = c.metadata.breadcrumb
                  /\ m.ancestry = c.metadata.ancestry
                  /\ IsSome(m.breadcrumb) <=> IsSome(c.metadata.breadcrumb)

\* C13 witness: two chunks converted, a text chunk without breadcrumb first,
\* a chunk with breadcrumb and leading trivia second.
C13_Witness ==
    /\ LiveOk
    /\ Len(ChunkMetas) = 2
    /\ ChunkMetas[1].chunk_type = Some(TextType)
    /\ ChunkMetas[1].breadcrumb = None
    /\ ChunkMetas[1].leading_trivia = Some(<< >>)
    /\ ChunkMetas[2].breadcrumb = Some(<<"m", ":", ":", "f">>)
    /\ ChunkMetas[2].estimated_tokens = Some(7)

LiveSteps == <<"exists", "read_to_string", "chunk_text_with_model">>

\* C14: the steps are attempted in the order exists, read, chunking, each at
\* most once; the call ends at the first step that fails, with an error
\* text that names the failure, and no later step is attempted; it returns
\* Ok (the lines of the content and the chunk metas) only after all three
\* steps succeeded.
C14_FirstFailureEndsTheCall ==
    /\ Len(calls) <= Len(LiveSteps)
    /\ calls = SubSeq(LiveSteps, 1, Len(calls))
    /\ IsSome(result) <=> LiveDone
    /\ LiveDone =>
          /\ ~file.exists =>
                /\ calls = <<"exists">>
                /\ result = Some(Err(<<"File does not exist: ">> \o file.path))
          /\ (file.exists /\ ~file.read.ok) =>
                /\ calls = <<"exists", "read_to_string">>
                /\ result = Some(Err(<<"Could not read ">> \o file.path \o <<": ">>
                                     \o file.read.err))
          /\ (file.exists /\ file.read.ok /\ ~file.chunking.ok) =>
                /\ calls = LiveSteps
                /\ result = Some(Err(<<"Failed to chunk file: ">>
                                     \o file.chunking.err))
          /\ Unwrap(result).ok <=>
                (file.exists /\ file.read.ok /\ file.chunking.ok)
          /\ Unwrap(result).ok =>
                /\ calls = LiveSteps
                /\ Unwrap(result).value[1] = Lines(file.read.value)
                /\ Len(ChunkMetas) = Len(file.chunking.value)

\* C14 witness: the file exists and cannot be read, although the chunker
\* would have succeeded: the call is over after two steps with an error.
C14_Witness ==
    /\ LiveDone
    /\ file.exists
    /\ ~file.read.ok
    /\ file.chunking.ok
    /\ Len(calls) = 2
    /\ ~Unwrap(result).ok

====
